---- MODULE Spec2Model ----
(***************************************************************************)
(* Live WebSocket monitors of the eth-network repository:                  *)
(*   live_collection/block_metrics_ws.py   (block monitor)                 *)
(*   live_collection/tx_metrics_ws.py      (transaction monitor)           *)
(*   ws_collection/mempool_metrics_ws.py   (mempool monitor)               *)
(* One run of the model is one run of one of the three programs; the       *)
(* variable `monitor` says which.  Every action is one step of the asyncio *)
(* event loop: the code a task executes between two suspension points.     *)
(***************************************************************************)
EXTENDS Integers, Sequences, FiniteSets, TLC

(* ----------------------------- bounds ---------------------------------- *)
\* inbound WebSocket frames the upstream nodes deliver over the whole run
MaxMsgs == 7
\* frames delivered in the runs that follow the supervisor over many sessions
SupMsgs == 2
\* --duration of the long runs, in tenths of a second
LongDuration == 30
\* --flush-tx-count of the block monitor
FlushTxCount == 2
\* how many tenths of a second late asyncio.sleep may wake the supervisor
MaxLate == 1
\* --interval of the mempool monitor, in tenths of a second
SampleInterval == 5
\* frames delivered in the runs that follow the transaction monitor's records
\* over several sessions
TxMsgs == 12
\* --duration of those runs, in tenths of a second
TxDuration == 20
\* logs in a receipt whose classification is followed on its own
MaxLogs == 2
\* records handed to a writer that is driven on its own
MaxRecords == 3
\* largest flush_every a transaction writer driven on its own is given
MaxFlushEvery == 2

(* ------------------------ program constants ---------------------------- *)
\* next_request_id = 100
FirstRequestId == 100
\* json_writer(out_path, queue, flush_every=100)
FlushEvery == 100
\* asyncio.sleep(min(1.0, max(0.1, remaining))), in tenths of a second
SleepMax == 10
SleepMin == 1
\* --duration of the short runs: one second, a single sleep of the supervisor
ShortDuration == SleepMax

(* --------------------------- environment ------------------------------- *)
\* endpoints discovered by main_async, in file order
Endpoints == <<"el-1-geth", "el-2-reth">>

\* Python None
None == [tag |-> "None"]
NoStr == "None"

\* the chain the nodes serve: hA has no transaction, hB has two
BlockHashes == {"hA", "hB"}
TxHashes == {"t1", "t2"}
ChainTxs(h) == IF h = "hB" THEN <<"t1", "t2">> ELSE << >>
ChainNumber(h) == IF h = "hA" THEN 1 ELSE 2
ChainGasLimit(h) == IF h = "hA" THEN 0 ELSE 60000
ChainGasUsed(h) == IF h = "hA" THEN 0 ELSE 42000
ChainTxOk(t) == t = "t1"
ChainTxGasUsed(t) == 21000
ChainTxGasPrice(t) == 10
\* t1 sends value without call data; t2 calls a token contract, which logs a
\* Transfer event
ChainTxValue(t) == IF t = "t1" THEN 5 ELSE 0
ChainTxInput(t) == IF t = "t1" THEN "0x" ELSE "0xa9059cbb"
ChainTxTo(t) == "0xto"

\* subscription identifiers the node hands out
HeadsSub == "0xh"
PendingSub == "0xp"
OtherSub == "0xz"

(* ----------------------------- helpers --------------------------------- *)
Min(a, b) == IF a <= b THEN a ELSE b
Max(a, b) == IF a >= b THEN a ELSE b

EmptyMap == [x \in {} |-> None]
MapPut(f, k, v) == [x \in (DOMAIN f) \cup {k} |-> IF x = k THEN v ELSE f[x]]
MapDel(f, k) == [x \in (DOMAIN f) \ {k} |-> f[x]]

RECURSIVE SeqSum(_)
SeqSum(s) == IF s = << >> THEN 0 ELSE Head(s) + SeqSum(Tail(s))

\* a hex string "0x..." is the sequence of its digits after the prefix
RECURSIVE ToHexDigits(_)
ToHexDigits(n) == IF n < 16 THEN <<n>> ELSE Append(ToHexDigits(n \div 16), n % 16)
ToHex(n) == [tag |-> "hex", digits |-> ToHexDigits(n)]

RECURSIVE ParseHex(_, _)
ParseHex(digits, acc) ==
    IF digits = << >> THEN acc ELSE ParseHex(Tail(digits), acc * 16 + Head(digits))

\* hex_to_int: None -> None, "0x.." -> int(value, 16)
hex_to_int(value) ==
    IF value = None THEN None
    ELSE [tag |-> "int", val |-> ParseHex(value.digits, 0)]

\* `x or 0` on the result of hex_to_int
OrZero(v) == IF v = None \/ v.val = 0 THEN 0 ELSE v.val

\* a Python float that is the quotient of two integers, kept exact and reduced
RECURSIVE GCD(_, _)
GCD(a, b) == IF b = 0 THEN a ELSE GCD(b, a % b)
Float(num, den) ==
    IF num = 0 THEN [num |-> 0, den |-> 1]
    ELSE [num |-> num \div GCD(num, den), den |-> den \div GCD(num, den)]
FloatZero == Float(0, 1)

(* ------------------------ strings of log topics ------------------------ *)
\* a Python str whose characters matter, as the sequence of its characters
Str(chars) == [tag |-> "str", chars |-> chars]
\* a Python list, as opposed to None
List(items) == [tag |-> "list", items |-> items]

\* str.lower(), on the characters the topics here are written with
LowerChar(c) ==
    CASE c = "A" -> "a" [] c = "B" -> "b" [] c = "C" -> "c"
      [] c = "D" -> "d" [] c = "E" -> "e" [] c = "F" -> "f"
      [] c = "X" -> "x" [] OTHER -> c
StrLower(chars) == [i \in DOMAIN chars |-> LowerChar(chars[i])]

\* TRANSFER_TOPIC, keccak256("Transfer(address,address,uint256)"), cut to its
\* first characters
TRANSFER_TOPIC == <<"0", "x", "d", "d", "f", "2">>
\* the same topic as a node that prints hex in capitals sends it
TransferTopicUpper == <<"0", "x", "D", "D", "F", "2">>
\* keccak256("Approval(address,address,uint256)"), cut likewise
ApprovalTopic == <<"0", "x", "8", "c", "5", "b">>

\* eth_getTransactionReceipt's "logs" of a transaction of the chain
ChainTxLogs(t) ==
    IF t = "t1" THEN List(<< >>)
    ELSE List(<<[topics |-> List(<<Str(TRANSFER_TOPIC)>>)]>>)

(* ------------------- block monitor: JsonBlockWriter -------------------- *)
\* what the file holds, as the sequence of write() calls' payloads
TokOpen == [tok |-> "[\n"]
TokSep == [tok |-> ",\n"]
TokClose == [tok |-> "\n]\n"]
TokRec(rec) == [tok |-> "record", rec |-> rec]

\* JsonBlockWriter.__init__
JsonBlockWriter(flush_tx_count) ==
    [flush_tx_count |-> flush_tx_count,
     buffer |-> << >>, buffer_tx |-> 0, total_blocks |-> 0, total_txs |-> 0,
     fh |-> <<TokOpen>>, first |-> TRUE]

\* main: JsonBlockWriter(out_path, flush_tx_count=args.flush_tx_count)
NewBlockWriter == JsonBlockWriter(FlushTxCount)

\* the for loop of JsonBlockWriter.flush over self.buffer
RECURSIVE WriteRecords(_, _, _)
WriteRecords(fh, first, recs) ==
    IF recs = << >> THEN [fh |-> fh, first |-> first]
    ELSE WriteRecords(
            Append(IF first THEN fh ELSE Append(fh, TokSep), TokRec(Head(recs))),
            FALSE, Tail(recs))

\* flush on a file handle opened anew with mode "w"
WriterFlush_Truncates(w) ==
    IF w.buffer = << >> THEN w
    ELSE LET out == WriteRecords(<<TokOpen>>, TRUE, w.buffer)
         IN  [w EXCEPT !.fh = out.fh, !.first = out.first,
                       !.buffer = << >>, !.buffer_tx = 0]

\* flush without `self.buffer.clear()`
WriterFlush_NoClear(w) ==
    IF w.buffer = << >> THEN w
    ELSE LET out == WriteRecords(w.fh, w.first, w.buffer)
         IN  [w EXCEPT !.fh = out.fh, !.first = out.first, !.buffer_tx = 0]

\* JsonBlockWriter.flush
WriterFlush(w) ==
    IF w.buffer = << >> THEN w
    ELSE LET out == WriteRecords(w.fh, w.first, w.buffer)
         IN  [w EXCEPT !.fh = out.fh, !.first = out.first,
                       !.buffer = << >>, !.buffer_tx = 0]

\* JsonBlockWriter.add_record
WriterAddRecord(w, record) ==
    LET tx_count == record.transactions.count
        w1 == [w EXCEPT !.buffer = Append(w.buffer, record),
                        !.buffer_tx = w.buffer_tx + tx_count,
                        !.total_blocks = w.total_blocks + 1,
                        !.total_txs = w.total_txs + tx_count]
    IN  IF w1.buffer_tx >= w.flush_tx_count THEN WriterFlush(w1) ELSE w1

\* JsonBlockWriter.close
WriterClose(w) ==
    LET w1 == IF w.buffer # << >> THEN WriterFlush(w) ELSE w
    IN  [w1 EXCEPT !.fh = Append(@, TokClose)]

\* the records a writer has accepted, in order: those on disk, then the buffer
RECURSIVE FileRecords(_)
FileRecords(fh) ==
    IF fh = << >> THEN << >>
    ELSE IF Head(fh).tok = "record" THEN <<Head(fh).rec>> \o FileRecords(Tail(fh))
    ELSE FileRecords(Tail(fh))
WriterRecords(w) == FileRecords(w.fh) \o w.buffer

(* ---------------------- tx monitor: json_writer ------------------------ *)
\* json_writer once called, before it runs
NewJsonWriter(flush_every) ==
    [flush_every |-> flush_every, pc |-> "created", f |-> << >>, first |-> TRUE,
     batch |-> << >>, written |-> 0, taken |-> 0, ret |-> None]

\* for rec in batch: write it, with a separator unless it is the first;
\* written += 1; then batch.clear()
JsonWriterWriteBatch(j) ==
    LET out == WriteRecords(j.f, j.first, j.batch)
    IN  [j EXCEPT !.f = out.fh, !.first = out.first,
                  !.written = @ + Len(j.batch), !.batch = << >>]

\* the loop body on the end-of-stream item, without `if batch:` and its loop
JsonWriterItem_NoFinalFlush(j, item) ==
    IF item = None
    THEN [j EXCEPT !.f = Append(@, TokClose), !.pc = "returned", !.ret = j.written,
                   !.taken = @ + 1]
    ELSE LET j1 == [j EXCEPT !.batch = Append(@, item), !.taken = @ + 1]
         IN  IF Len(j1.batch) >= j.flush_every THEN JsonWriterWriteBatch(j1) ELSE j1

\* the body of the while True loop on the item queue.get() returned
JsonWriterItem(j, item) ==
    IF item = None
    THEN LET j1 == IF j.batch # << >> THEN JsonWriterWriteBatch(j) ELSE j
         IN  [j1 EXCEPT !.f = Append(@, TokClose), !.pc = "returned",
                        !.ret = j1.written, !.taken = @ + 1]
    ELSE LET j1 == [j EXCEPT !.batch = Append(@, item), !.taken = @ + 1]
         IN  IF Len(j1.batch) >= j.flush_every THEN JsonWriterWriteBatch(j1) ELSE j1

(* ------------------- block monitor: build_block_record ----------------- *)
build_block_record(agg) ==
    LET gas_used == agg.gas_used
        gas_limit == agg.gas_limit
        total_tx == agg.total_transactions
        success_count == agg.success_count
        gas_used_percentage ==
            IF gas_limit > 0 THEN Float(gas_used * 100, gas_limit) ELSE FloatZero
        success_rate ==
            IF total_tx > 0 THEN Float(success_count * 100, total_tx) ELSE FloatZero
        failed_count == Max(total_tx - success_count, 0)
    IN  [block_number |-> agg.block_number,
         hash |-> agg.block_hash,
         block |-> [gas |-> [used |-> gas_used, limit |-> gas_limit,
                             used_percentage |-> gas_used_percentage]],
         transactions |->
            [count |-> total_tx,
             success |-> [successful |-> success_count, failed |-> failed_count,
                          success_rate_percent |-> success_rate],
             fees |-> [total_wei |-> agg.fee_total_wei]]]

(* ----------------------- what the node answers ------------------------- *)
\* eth_getBlockByHash(h, True): the full block, transactions as objects
NodeBlock(h) ==
    [tag |-> "block", hash |-> h, number |-> ToHex(ChainNumber(h)),
     gasUsed |-> ToHex(ChainGasUsed(h)), gasLimit |-> ToHex(ChainGasLimit(h)),
     transactions |->
        [i \in 1..Len(ChainTxs(h)) |->
            [hash |-> ChainTxs(h)[i],
             value |-> ToHex(ChainTxValue(ChainTxs(h)[i])),
             input |-> ChainTxInput(ChainTxs(h)[i]),
             to |-> ChainTxTo(ChainTxs(h)[i])]]]

\* eth_getTransactionReceipt(t)
NodeReceipt(t) ==
    [tag |-> "receipt", transactionHash |-> t,
     status |-> IF ChainTxOk(t) THEN "0x1" ELSE "0x0",
     gasUsed |-> ToHex(ChainTxGasUsed(t)),
     effectiveGasPrice |-> ToHex(ChainTxGasPrice(t)),
     logs |-> ChainTxLogs(t)]

\* the result the node computes for a request it received
NodeResult(req) ==
    IF req.method = "eth_getBlockByHash" THEN NodeBlock(req.param)
    ELSE NodeReceipt(req.param)

\* bool(result) of a response's result
Truthy(result) == result # None

\* get_request_id without `next_request_id += 1`
get_request_id_NoIncrement(next) == [rid |-> next, next |-> next]

\* get_request_id: the id handed out and the counter after the call
get_request_id(next) == [rid |-> next, next |-> next + 1]

(* ------------------------------ state ---------------------------------- *)
VARIABLES
    monitor,            \* which program runs: "block", "tx" or "mempool"
    endpoints,          \* main_async: the endpoints read from the services file
    main_pc,            \* where main_async is, or how it ended
    sampler,            \* mempool monitor: the sampler_task coroutine
    snapshots,          \* mempool monitor: the lines written to the output file
    jw,                 \* tx monitor: the json_writer coroutine
    \* monitor_with_failover (block and tx monitors)
    sup_pc,             \* where the supervisor coroutine is suspended
    sup_exit,           \* how it leaves once the gather of its finally is over
    interrupted,        \* asyncio.run has cancelled the main task (Ctrl-C)
    duration,           \* args.duration, in tenths of a second
    idx, current_task, end_time, wake_at,
    tasks,              \* every task created for monitor_node, in creation order
    now,                \* loop.time(), in tenths of a second
    \* locals of the running monitor_node
    outstanding, blocks_in_progress, next_request_id,
    heads_sub_id, pending_sub_id, pending_seen,
    msg,                \* the frame the last iteration of the receive loop got
    \* the node's side of the connection: requests received and not yet answered
    sent,
    \* history: ids handed to outstanding in this session, in order
    issued,
    \* history: per block hash, the transactions whose receipt was added to the
    \* aggregate now (or last) held under that hash
    applied,
    \* output
    writer,             \* block monitor: the JsonBlockWriter
    added,              \* history: the records passed to add_record, in order
    queue,              \* tx monitor: records put on the asyncio.Queue
    global_counter,     \* tx monitor: global_counter["value"]
    state,              \* mempool monitor: the node's NodeMempoolState
    msgs_left           \* frames the environment may still deliver

\* what no step of a session task or of the supervisor writes
progVars == <<monitor, endpoints, main_pc, sampler, snapshots, jw>>
supVars == <<duration, sup_pc, sup_exit, interrupted, idx, current_task, end_time, wake_at, now>>
sessVars == <<outstanding, blocks_in_progress, next_request_id, heads_sub_id,
              pending_sub_id, pending_seen, sent, issued, applied>>
outVars == <<writer, added, queue, global_counter, state>>
vars == <<progVars, supVars, tasks, sessVars, msg, outVars, msgs_left>>

\* a local of monitor_node while no call of monitor_node is live
Unbound == [tag |-> "unbound", type |-> "unbound"]
SubId(v) == [tag |-> "subid", value |-> v]

\* NodeMempoolState(name=name)
NewNodeMempoolState ==
    [pending |-> {}, new_pending_since_last |-> 0, confirmed_since_last |-> 0,
     total_seen_pending |-> 0, total_confirmed |-> 0]

\* the state one loop iteration of monitor_node reads and writes
Cur ==
    [outstanding |-> outstanding, blocks_in_progress |-> blocks_in_progress,
     next_request_id |-> next_request_id, heads_sub_id |-> heads_sub_id,
     pending_sub_id |-> pending_sub_id, pending_seen |-> pending_seen,
     sent |-> sent, issued |-> issued, applied |-> applied,
     writer |-> writer, added |-> added, queue |-> queue, global_counter |-> global_counter,
     state |-> state, now |-> now, name |-> NoStr, raised |-> FALSE]

Install(s) ==
    /\ outstanding' = s.outstanding
    /\ blocks_in_progress' = s.blocks_in_progress
    /\ next_request_id' = s.next_request_id
    /\ heads_sub_id' = s.heads_sub_id
    /\ pending_sub_id' = s.pending_sub_id
    /\ pending_seen' = s.pending_seen
    /\ sent' = s.sent
    /\ issued' = s.issued
    /\ applied' = s.applied
    /\ writer' = s.writer
    /\ added' = s.added
    /\ queue' = s.queue
    /\ global_counter' = s.global_counter
    /\ state' = s.state

\* rid = get_request_id(); outstanding[rid] = (kind, meta); await ws.send(request)
SendRequest(s, kind, meta, method, param) ==
    LET g == get_request_id(s.next_request_id)
    IN  [s EXCEPT !.next_request_id = g.next,
                  !.outstanding = MapPut(@, g.rid, [kind |-> kind, meta |-> meta]),
                  !.sent = MapPut(@, g.rid, [method |-> method, param |-> param]),
                  !.issued = Append(@, g.rid)]

(* -------------------- block monitor: monitor_node ---------------------- *)
\* for tx in txs: request the receipt of every transaction that has a hash
RECURSIVE BlockRequestReceipts(_, _, _)
BlockRequestReceipts(s, txs, block_hash) ==
    IF txs = << >> THEN s
    ELSE IF Head(txs).hash = NoStr
         THEN BlockRequestReceipts(s, Tail(txs), block_hash)
         ELSE BlockRequestReceipts(
                SendRequest(s, "receipt", [block_hash |-> block_hash],
                            "eth_getTransactionReceipt", Head(txs).hash),
                Tail(txs), block_hash)

\* emit: record = build_block_record(agg); writer.add_record(record);
\* blocks_in_progress.pop(block_hash, None)
BlockFinalize(s, agg) ==
    [s EXCEPT !.writer = WriterAddRecord(@, build_block_record(agg)),
              !.added = Append(@, build_block_record(agg)),
              !.blocks_in_progress = MapDel(@, agg.block_hash)]

\* BlockOnBlock without the `if total_tx == 0` branch
BlockOnBlock_NoZeroCase(s, block) ==
    IF block.hash = NoStr \/ block.number = None THEN s
    ELSE LET txs == block.transactions
             agg == [block_hash |-> block.hash,
                     block_number |-> ParseHex(block.number.digits, 0),
                     gas_used |-> OrZero(hex_to_int(block.gasUsed)),
                     gas_limit |-> OrZero(hex_to_int(block.gasLimit)),
                     total_transactions |-> Len(txs),
                     pending_receipts |-> Len(txs),
                     success_count |-> 0,
                     fee_total_wei |-> 0]
         IN  BlockRequestReceipts(
                [s EXCEPT !.blocks_in_progress = MapPut(@, block.hash, agg),
                          !.applied = MapPut(@, block.hash, << >>)],
                txs, block.hash)

\* kind == "block" and result
BlockOnBlock(s, block) ==
    IF block.hash = NoStr \/ block.number = None THEN s
    ELSE LET txs == block.transactions
             total_tx == Len(txs)
             agg == [block_hash |-> block.hash,
                     block_number |-> ParseHex(block.number.digits, 0),
                     gas_used |-> OrZero(hex_to_int(block.gasUsed)),
                     gas_limit |-> OrZero(hex_to_int(block.gasLimit)),
                     total_transactions |-> total_tx,
                     pending_receipts |-> total_tx,
                     success_count |-> 0,
                     fee_total_wei |-> 0]
             s1 == [s EXCEPT !.blocks_in_progress = MapPut(@, block.hash, agg),
                             !.applied = MapPut(@, block.hash, << >>)]
         IN  IF total_tx = 0 THEN BlockFinalize(s1, agg)
             ELSE BlockRequestReceipts(s1, txs, block.hash)

\* kind == "receipt" and result
BlockOnReceipt(s, meta, receipt) ==
    LET block_hash == meta.block_hash
    IN  IF block_hash \notin DOMAIN s.blocks_in_progress THEN s
        ELSE LET agg == s.blocks_in_progress[block_hash]
                 success == receipt.status = "0x1"
                 gas_used_tx == OrZero(hex_to_int(receipt.gasUsed))
                 effective_gas_price == OrZero(hex_to_int(receipt.effectiveGasPrice))
                 fee == gas_used_tx * effective_gas_price
                 agg1 == [agg EXCEPT
                            !.success_count = IF success THEN @ + 1 ELSE @,
                            !.fee_total_wei = @ + fee,
                            !.pending_receipts = @ - 1]
                 s1 == [s EXCEPT !.blocks_in_progress[block_hash] = agg1,
                                 !.applied[block_hash] =
                                        Append(@, receipt.transactionHash)]
             IN  IF agg1.pending_receipts <= 0 THEN BlockFinalize(s1, agg1) ELSE s1

\* kind, meta = outstanding.pop(req_id) and the branch on kind
BlockDispatch(s, m) ==
    LET kind == s.outstanding[m.id].kind
        meta == s.outstanding[m.id].meta
        s1 == [s EXCEPT !.outstanding = MapDel(@, m.id)]
    IN  IF kind = "block" /\ Truthy(m.result) THEN BlockOnBlock(s1, m.result)
        ELSE IF kind = "receipt" /\ Truthy(m.result)
             THEN BlockOnReceipt(s1, meta, m.result)
             ELSE s1

\* BlockOnResponse popping without `if req_id in outstanding`: KeyError
BlockOnResponse_KeyError(s, m) ==
    IF m.id \notin DOMAIN s.outstanding THEN [s EXCEPT !.raised = TRUE]
    ELSE BlockDispatch(s, m)

\* "id" in msg and "result" in msg, msg["id"] != 1: if req_id in outstanding
BlockOnResponse(s, m) ==
    IF m.id \notin DOMAIN s.outstanding THEN s ELSE BlockDispatch(s, m)

\* msg.get("method") == "eth_subscription"
BlockOnNotification(s, m) ==
    IF s.heads_sub_id # None /\ m.subscription = s.heads_sub_id
    THEN IF m.result.hash = NoStr THEN s
         ELSE SendRequest(s, "block", EmptyMap, "eth_getBlockByHash", m.result.hash)
    ELSE s

\* one iteration of the while True loop: msg = json.loads(await ws.recv()) ...
BlockOnMessage(s, m) ==
    IF m.type = "garbage" THEN [s EXCEPT !.raised = TRUE]
    ELSE IF m.type = "resp"
         THEN IF m.id = 1 THEN [s EXCEPT !.heads_sub_id = m.result]
              ELSE BlockOnResponse(s, m)
    ELSE IF m.type = "notif" THEN BlockOnNotification(s, m)
    ELSE s

(* ----------------------- tx monitor: monitor_node ---------------------- *)
\* TxRequestReceipts without `if tx_hash not in pending_seen: continue`
RECURSIVE TxRequestReceipts_NoPendingCheck(_, _, _, _)
TxRequestReceipts_NoPendingCheck(s, txs, meta, block_number) ==
    IF txs = << >> THEN s
    ELSE LET tx_hash == Head(txs).hash
         IN  IF tx_hash = NoStr
             THEN TxRequestReceipts_NoPendingCheck(s, Tail(txs), meta, block_number)
             ELSE LET send_ts == IF tx_hash \in DOMAIN s.pending_seen
                                 THEN s.pending_seen[tx_hash] ELSE s.now
                      s1 == [s EXCEPT !.pending_seen = MapDel(@, tx_hash)]
                  IN  TxRequestReceipts_NoPendingCheck(
                        SendRequest(s1, "receipt",
                                    [node_name |-> meta.node_name, tx_hash |-> tx_hash,
                                     value |-> Head(txs).value,
                                     input |-> Head(txs).input, to |-> Head(txs).to,
                                     block_number |-> block_number, send_ts |-> send_ts],
                                    "eth_getTransactionReceipt", tx_hash),
                        Tail(txs), meta, block_number)

\* for tx in txs: request the receipt of every transaction seen pending
RECURSIVE TxRequestReceipts(_, _, _, _)
TxRequestReceipts(s, txs, meta, block_number) ==
    IF txs = << >> THEN s
    ELSE LET tx_hash == Head(txs).hash
         IN  IF tx_hash = NoStr \/ tx_hash \notin DOMAIN s.pending_seen
             THEN TxRequestReceipts(s, Tail(txs), meta, block_number)
             ELSE LET send_ts == s.pending_seen[tx_hash]
                      s1 == [s EXCEPT !.pending_seen = MapDel(@, tx_hash)]
                  IN  TxRequestReceipts(
                        SendRequest(s1, "receipt",
                                    [node_name |-> meta.node_name, tx_hash |-> tx_hash,
                                     value |-> Head(txs).value,
                                     input |-> Head(txs).input, to |-> Head(txs).to,
                                     block_number |-> block_number, send_ts |-> send_ts],
                                    "eth_getTransactionReceipt", tx_hash),
                        Tail(txs), meta, block_number)

\* kind == "block" and result
TxOnBlock(s, meta, block) ==
    IF block.number = None THEN s
    ELSE TxRequestReceipts(s, block.transactions, meta, ParseHex(block.number.digits, 0))

\* input_data in ("0x", "0x0", "")
EmptyInputs == {"0x", "0x0", ""}

\* the loop over the logs without its `break`
RECURSIVE TokenTransferLabels_NoBreak(_)
TokenTransferLabels_NoBreak(logs) ==
    IF logs = << >> THEN << >>
    ELSE LET topics == IF Head(logs).topics = None THEN << >>
                       ELSE Head(logs).topics.items
         IN  IF topics = << >> THEN TokenTransferLabels_NoBreak(Tail(logs))
             ELSE IF /\ topics[1].tag = "str"
                     /\ StrLower(topics[1].chars) = StrLower(TRANSFER_TOPIC)
                  THEN <<"token_transfer">> \o TokenTransferLabels_NoBreak(Tail(logs))
                  ELSE TokenTransferLabels_NoBreak(Tail(logs))

\* for log in logs: what the loop appends to transaction_types
RECURSIVE TokenTransferLabels(_)
TokenTransferLabels(logs) ==
    IF logs = << >> THEN << >>
    ELSE LET topics == IF Head(logs).topics = None THEN << >>
                       ELSE Head(logs).topics.items
         IN  IF topics = << >> THEN TokenTransferLabels(Tail(logs))
             ELSE IF /\ topics[1].tag = "str"
                     /\ StrLower(topics[1].chars) = StrLower(TRANSFER_TOPIC)
                  THEN <<"token_transfer">>
                  ELSE TokenTransferLabels(Tail(logs))

\* the transaction types classification: the list transaction_types ends as
transaction_types(meta, result) ==
    LET value_int == hex_to_int(meta.value)
        input_data == IF meta.input \in {NoStr, ""} THEN "0x" ELSE meta.input
        to_addr == meta.to
        logs == IF result = None \/ result.logs = None THEN << >> ELSE result.logs.items
        coin == IF value_int # None /\ value_int.val > 0 /\ input_data \in EmptyInputs
                THEN <<"coin_transfer">> ELSE << >>
        call == IF input_data \notin EmptyInputs /\ to_addr \notin {NoStr, ""}
                THEN <<"contract_call">> ELSE << >>
        types == coin \o call \o TokenTransferLabels(logs)
    IN  IF types = << >> THEN <<"other">> ELSE types

\* TxOnReceipt counting only the transactions that succeeded
TxOnReceipt_CountsSuccessOnly(s, meta, result) ==
    LET success == IF result = None THEN FALSE ELSE result.status = "0x1"
        total_tx_number == IF success THEN s.global_counter + 1 ELSE s.global_counter
        record == [node |-> meta.node_name,
                   tx |-> [hash |-> meta.tx_hash, block_number |-> meta.block_number,
                           global_sequence |-> total_tx_number,
                           categories |-> transaction_types(meta, result),
                           success |-> success],
                   time |-> [first_seen |-> meta.send_ts, confirmed |-> s.now]]
    IN  [s EXCEPT !.global_counter = total_tx_number, !.queue = Append(@, record)]

\* kind == "receipt": build the record and put it on the queue
TxOnReceipt(s, meta, result) ==
    LET success == IF result = None THEN FALSE ELSE result.status = "0x1"
        total_tx_number == s.global_counter + 1
        record == [node |-> meta.node_name,
                   tx |-> [hash |-> meta.tx_hash, block_number |-> meta.block_number,
                           global_sequence |-> total_tx_number,
                           categories |-> transaction_types(meta, result),
                           success |-> success],
                   time |-> [first_seen |-> meta.send_ts, confirmed |-> s.now]]
    IN  [s EXCEPT !.global_counter = total_tx_number, !.queue = Append(@, record)]

\* kind, meta = outstanding.pop(req_id) and the branch on kind
TxDispatch(s, m) ==
    LET kind == s.outstanding[m.id].kind
        meta == s.outstanding[m.id].meta
        s1 == [s EXCEPT !.outstanding = MapDel(@, m.id)]
    IN  IF kind = "block" /\ Truthy(m.result) THEN TxOnBlock(s1, meta, m.result)
        ELSE IF kind = "receipt" THEN TxOnReceipt(s1, meta, m.result)
             ELSE s1

\* "id" in msg and "result" in msg, msg["id"] not in (1, 2): if req_id in outstanding
TxOnResponse(s, m) ==
    IF m.id \notin DOMAIN s.outstanding THEN s ELSE TxDispatch(s, m)

\* TxOnNotification telling the two kinds of notification apart by their
\* result, not by their subscription id
TxOnNotification_AnySub(s, m) ==
    IF m.result.tag = "txhash"
    THEN IF m.result.hash \in DOMAIN s.pending_seen THEN s
         ELSE [s EXCEPT !.pending_seen = MapPut(@, m.result.hash, s.now)]
    ELSE IF m.result.hash = NoStr THEN s
         ELSE SendRequest(s, "block", [node_name |-> s.name],
                          "eth_getBlockByHash", m.result.hash)

\* msg.get("method") == "eth_subscription"
TxOnNotification(s, m) ==
    IF s.pending_sub_id # None /\ m.subscription = s.pending_sub_id
    THEN IF m.result.hash \in DOMAIN s.pending_seen THEN s
         ELSE [s EXCEPT !.pending_seen = MapPut(@, m.result.hash, s.now)]
    ELSE IF s.heads_sub_id # None /\ m.subscription = s.heads_sub_id
         THEN IF m.result.hash = NoStr THEN s
              ELSE SendRequest(s, "block", [node_name |-> s.name],
                               "eth_getBlockByHash", m.result.hash)
         ELSE s

TxOnMessage(s, m) ==
    IF m.type = "garbage" THEN [s EXCEPT !.raised = TRUE]
    ELSE IF m.type = "resp"
         THEN IF m.id = 1 THEN [s EXCEPT !.pending_sub_id = m.result]
              ELSE IF m.id = 2 THEN [s EXCEPT !.heads_sub_id = m.result]
              ELSE TxOnResponse(s, m)
    ELSE IF m.type = "notif" THEN TxOnNotification(s, m)
    ELSE s

(* --------------------- mempool monitor: monitor_node ------------------- *)
\* MempoolConfirm without `if tx_hash in state.pending`
RECURSIVE MempoolConfirm_NoCheck(_, _)
MempoolConfirm_NoCheck(st, txs) ==
    IF txs = << >> THEN st
    ELSE LET tx_hash == Head(txs).hash
         IN  IF tx_hash # NoStr
             THEN MempoolConfirm_NoCheck(
                    [st EXCEPT !.pending = @ \ {tx_hash},
                               !.confirmed_since_last = @ + 1,
                               !.total_confirmed = @ + 1],
                    Tail(txs))
             ELSE MempoolConfirm_NoCheck(st, Tail(txs))

\* for tx in txs: remove every included transaction from state.pending
RECURSIVE MempoolConfirm(_, _)
MempoolConfirm(st, txs) ==
    IF txs = << >> THEN st
    ELSE LET tx_hash == Head(txs).hash
         IN  IF tx_hash # NoStr /\ tx_hash \in st.pending
             THEN MempoolConfirm(
                    [st EXCEPT !.pending = @ \ {tx_hash},
                               !.confirmed_since_last = @ + 1,
                               !.total_confirmed = @ + 1],
                    Tail(txs))
             ELSE MempoolConfirm(st, Tail(txs))

\* kind, meta = outstanding.pop(req_id) and the branch on kind
MempoolDispatch(s, m) ==
    LET kind == s.outstanding[m.id].kind
        s1 == [s EXCEPT !.outstanding = MapDel(@, m.id)]
    IN  IF kind = "block" /\ Truthy(m.result)
        THEN [s1 EXCEPT !.state = MempoolConfirm(@, m.result.transactions)]
        ELSE s1

\* "id" in msg and "result" in msg, msg["id"] not in (1, 2): if req_id in outstanding
MempoolOnResponse(s, m) ==
    IF m.id \notin DOMAIN s.outstanding THEN s ELSE MempoolDispatch(s, m)

\* MempoolOnNotification without `if tx_hash not in state.pending`
MempoolOnNotification_NoDedup(s, m) ==
    IF s.pending_sub_id # None /\ m.subscription = s.pending_sub_id
    THEN [s EXCEPT !.state.pending = @ \cup {m.result.hash},
                   !.state.new_pending_since_last = @ + 1,
                   !.state.total_seen_pending = @ + 1]
    ELSE IF s.heads_sub_id # None /\ m.subscription = s.heads_sub_id
         THEN IF m.result.hash = NoStr THEN s
              ELSE SendRequest(s, "block", EmptyMap, "eth_getBlockByHash", m.result.hash)
         ELSE s

\* msg.get("method") == "eth_subscription"
MempoolOnNotification(s, m) ==
    IF s.pending_sub_id # None /\ m.subscription = s.pending_sub_id
    THEN IF m.result.hash \in s.state.pending THEN s
         ELSE [s EXCEPT !.state.pending = @ \cup {m.result.hash},
                        !.state.new_pending_since_last = @ + 1,
                        !.state.total_seen_pending = @ + 1]
    ELSE IF s.heads_sub_id # None /\ m.subscription = s.heads_sub_id
         THEN IF m.result.hash = NoStr THEN s
              ELSE SendRequest(s, "block", EmptyMap, "eth_getBlockByHash", m.result.hash)
         ELSE s

MempoolOnMessage(s, m) ==
    IF m.type = "garbage" THEN [s EXCEPT !.raised = TRUE]
    ELSE IF m.type = "resp"
         THEN IF m.id = 1 THEN [s EXCEPT !.pending_sub_id = m.result]
              ELSE IF m.id = 2 THEN [s EXCEPT !.heads_sub_id = m.result]
              ELSE MempoolOnResponse(s, m)
    ELSE IF m.type = "notif" THEN MempoolOnNotification(s, m)
    ELSE s

(* ------------------- frames the upstream node may send ----------------- *)
StrayId == FirstRequestId - 1

\* answers to eth_subscribe: id 1 (and 2 in the tx and mempool monitors)
Acks ==
    IF monitor = "block"
    THEN {[type |-> "resp", id |-> 1, result |-> SubId(HeadsSub)]}
    ELSE {[type |-> "resp", id |-> 1, result |-> SubId(PendingSub)],
          [type |-> "resp", id |-> 2, result |-> SubId(HeadsSub)]}

\* eth_subscription notifications: new heads (one of them without a hash), new
\* pending transactions, and one of a subscription this client never made
Notifications ==
    {[type |-> "notif", subscription |-> SubId(HeadsSub),
      result |-> [tag |-> "header", hash |-> h]] : h \in BlockHashes \cup {NoStr}}
    \cup {[type |-> "notif", subscription |-> SubId(OtherSub),
           result |-> [tag |-> "header", hash |-> "hA"]]}
    \cup (IF monitor = "block" THEN {}
          ELSE {[type |-> "notif", subscription |-> SubId(PendingSub),
                 result |-> [tag |-> "txhash", hash |-> t]] : t \in TxHashes})

\* answers to the requests the node holds: the result, a null result or an
\* error object; and a response whose id this session never issued
Responses ==
    {[type |-> "resp", id |-> rid, result |-> NodeResult(sent[rid])] : rid \in DOMAIN sent}
    \cup {[type |-> "resp", id |-> rid, result |-> None] : rid \in DOMAIN sent}
    \cup {[type |-> "error", id |-> rid] : rid \in DOMAIN sent}
    \cup {[type |-> "resp", id |-> StrayId, result |-> None]}

\* a frame json.loads rejects
Garbage == {[type |-> "garbage"]}

Inbound == Acks \cup Notifications \cup Responses \cup Garbage

\* the node has answered request m.id
Answered(s, m) ==
    IF m.type \in {"resp", "error"} /\ m.id \in DOMAIN s.sent
    THEN [s EXCEPT !.sent = MapDel(@, m.id)] ELSE s

(* --------------------------- session tasks ----------------------------- *)
Done(t) == t.status \in {"returned", "cancelled"}

\* FreshLocals with a Correlation Table that outlives the call: the session starts
\* with the entry of a block request made by the one before it
FreshLocals_StaleTable ==
    /\ outstanding' = MapPut(EmptyMap, FirstRequestId, [kind |-> "block", meta |-> EmptyMap])
    /\ blocks_in_progress' = EmptyMap
    /\ next_request_id' = FirstRequestId + 1
    /\ heads_sub_id' = None
    /\ pending_sub_id' = None
    /\ pending_seen' = EmptyMap
    /\ sent' = EmptyMap
    /\ issued' = << >>
    /\ applied' = EmptyMap
    /\ msg' = Unbound

\* monitor_node up to its try: fresh locals
FreshLocals ==
    /\ outstanding' = EmptyMap
    /\ blocks_in_progress' = EmptyMap
    /\ next_request_id' = FirstRequestId
    /\ heads_sub_id' = None
    /\ pending_sub_id' = None
    /\ pending_seen' = EmptyMap
    /\ sent' = EmptyMap
    /\ issued' = << >>
    /\ applied' = EmptyMap
    /\ msg' = Unbound

\* monitor_node is left (return or raise): its frame and its connection are gone
DropLocals ==
    /\ outstanding' = Unbound
    /\ blocks_in_progress' = Unbound
    /\ next_request_id' = Unbound
    /\ heads_sub_id' = Unbound
    /\ pending_sub_id' = Unbound
    /\ pending_seen' = Unbound
    /\ sent' = Unbound
    /\ issued' = Unbound
    /\ applied' = Unbound

\* the task starts: websockets.connect succeeds, the subscriptions are sent
SessStart(k) ==
    /\ tasks[k].status = "pending"
    /\ tasks' = [tasks EXCEPT ![k].status = "running"]
    /\ FreshLocals
    /\ UNCHANGED <<progVars, supVars, outVars, msgs_left>>

\* the task starts and websockets.connect raises: except Exception, return
SessConnectFail(k) ==
    /\ tasks[k].status = "pending"
    /\ tasks' = [tasks EXCEPT ![k].status = "returned"]
    /\ DropLocals
    /\ msg' = Unbound
    /\ UNCHANGED <<progVars, supVars, outVars, msgs_left>>

\* await ws.recv() raises ConnectionClosed: except Exception, return
SessDrop(k) ==
    /\ tasks[k].status = "running"
    /\ tasks' = [tasks EXCEPT ![k].status = "returned"]
    /\ DropLocals
    /\ msg' = Unbound
    /\ UNCHANGED <<progVars, supVars, outVars, msgs_left>>

\* CancelledError is thrown into the task: except CancelledError, raise
SessCancelled(k) ==
    /\ tasks[k].status = "cancelling"
    /\ tasks' = [tasks EXCEPT ![k].status = "cancelled"]
    /\ DropLocals
    /\ msg' = Unbound
    /\ UNCHANGED <<progVars, supVars, outVars, msgs_left>>

\* one iteration of the receive loop of task k on frame m
Recv(k, m, s) ==
    /\ msgs_left > 0
    /\ msgs_left' = msgs_left - 1
    /\ msg' = m
    /\ IF s.raised
       THEN /\ tasks' = [tasks EXCEPT ![k].status = "returned"]
            /\ DropLocals
            /\ UNCHANGED outVars
       ELSE /\ tasks' = tasks
            /\ Install(s)
    /\ UNCHANGED <<progVars, supVars>>

CurOf(k, m) == Answered([Cur EXCEPT !.name = tasks[k].name], m)

RecvBlock(k) ==
    /\ monitor = "block"
    /\ tasks[k].status = "running"
    /\ \E m \in Inbound : Recv(k, m, BlockOnMessage(CurOf(k, m), m))

RecvTx(k) ==
    /\ monitor = "tx"
    /\ tasks[k].status = "running"
    /\ \E m \in Inbound : Recv(k, m, TxOnMessage(CurOf(k, m), m))

RecvMempool(k) ==
    /\ monitor = "mempool"
    /\ tasks[k].status = "running"
    /\ \E m \in Inbound : Recv(k, m, MempoolOnMessage(CurOf(k, m), m))

\* the frames of a node that answers every request once, with its result,
\* announces a pending transaction once as long as it is not included, and
\* announces the block that includes them when it has nothing left to answer
AnsweringInbound ==
    {m \in Acks : IF m.id = 1 THEN pending_sub_id = None ELSE heads_sub_id = None}
    \cup {[type |-> "notif", subscription |-> SubId(PendingSub),
           result |-> [tag |-> "txhash", hash |-> t]] : t \in TxHashes \ DOMAIN pending_seen}
    \cup (IF DOMAIN pending_seen # {} /\ DOMAIN sent = {}
          THEN {[type |-> "notif", subscription |-> SubId(HeadsSub),
                 result |-> [tag |-> "header", hash |-> "hB"]]}
          ELSE {})
    \cup {[type |-> "resp", id |-> rid, result |-> NodeResult(sent[rid])] : rid \in DOMAIN sent}

RecvTxAnswering(k) ==
    /\ monitor = "tx"
    /\ tasks[k].status = "running"
    /\ \E m \in AnsweringInbound : Recv(k, m, TxOnMessage(CurOf(k, m), m))

\* the frames of a node that acknowledges the newHeads subscription, announces
\* a block once in a session when it has nothing left to answer, and answers
\* every request once, with its result
AnsweringBlockInbound ==
    {m \in Acks : heads_sub_id = None}
    \cup (IF DOMAIN sent = {}
          THEN {[type |-> "notif", subscription |-> SubId(HeadsSub),
                 result |-> [tag |-> "header", hash |-> h]] :
                    h \in BlockHashes \ DOMAIN applied}
          ELSE {})
    \cup {[type |-> "resp", id |-> rid, result |-> NodeResult(sent[rid])] : rid \in DOMAIN sent}

RecvBlockAnswering(k) ==
    /\ monitor = "block"
    /\ tasks[k].status = "running"
    /\ \E m \in AnsweringBlockInbound : Recv(k, m, BlockOnMessage(CurOf(k, m), m))

(* ----------------------- monitor_with_failover ------------------------- *)
\* a supervisor that starts a task on every pass
NeedsNewTask_Always == TRUE

\* a supervisor that starts a task only when it has none
NeedsNewTask_OnlyFirst == current_task = 0

\* current_task is None or current_task.done()
NeedsNewTask == current_task = 0 \/ Done(tasks[current_task])

\* a cursor that never advances
NextIdx_Stuck(i) == i

\* idx = (idx + 1) % len(endpoints)
NextIdx(i) == (i + 1) % Len(endpoints)

\* a finally block that cancels the task and does not await it
FinallyBlock_NoAwait(kind) ==
    /\ tasks' = IF current_task # 0 /\ ~Done(tasks[current_task])
                THEN [tasks EXCEPT ![current_task].status = "cancelling"]
                ELSE tasks
    /\ sup_pc' = kind
    /\ sup_exit' = kind

\* a finally block that awaits the task without cancelling it
FinallyBlock_NoCancel(kind) ==
    IF current_task # 0 /\ ~Done(tasks[current_task])
    THEN /\ tasks' = tasks
         /\ sup_pc' = "gather"
         /\ sup_exit' = kind
    ELSE /\ tasks' = tasks
         /\ sup_pc' = kind
         /\ sup_exit' = kind

\* finally: cancel the task that is not done and await it
FinallyBlock(kind) ==
    IF current_task # 0 /\ ~Done(tasks[current_task])
    THEN /\ tasks' = [tasks EXCEPT ![current_task].status = "cancelling"]
         /\ sup_pc' = "gather"
         /\ sup_exit' = kind
    ELSE /\ tasks' = tasks
         /\ sup_pc' = kind
         /\ sup_exit' = kind

\* one pass of the while True loop at time t, up to the sleep or out of the loop
LoopBody(t, et) ==
    LET remaining == et - t
    IN  IF remaining <= 0
        THEN FinallyBlock("returned") /\ UNCHANGED <<idx, current_task, wake_at>>
        ELSE /\ IF NeedsNewTask
                THEN /\ tasks' = Append(tasks, [name |-> endpoints[idx + 1],
                                                status |-> "pending"])
                     /\ current_task' = Len(tasks) + 1
                     /\ idx' = NextIdx(idx)
                ELSE UNCHANGED <<tasks, current_task, idx>>
             /\ sup_pc' = "sleep"
             /\ wake_at' = t + Min(SleepMax, Max(SleepMin, remaining))
             /\ UNCHANGED sup_exit

\* the call: `if not endpoints: return`; end_time = loop.time() + duration,
\* then the first pass
SupStart ==
    /\ sup_pc = "start"
    /\ IF endpoints = << >>
       THEN /\ sup_pc' = "returned"
            /\ UNCHANGED <<end_time, sup_exit, idx, current_task, wake_at, tasks>>
       ELSE /\ end_time' = now + duration
            /\ LoopBody(now, now + duration)
    /\ UNCHANGED <<progVars, duration, interrupted, now, sessVars, msg, outVars, msgs_left>>

\* asyncio.sleep is over: the next pass
SupWake ==
    /\ sup_pc = "sleep"
    /\ \E late \in 0..MaxLate :
          /\ now' = wake_at + late
          /\ LoopBody(wake_at + late, end_time)
    /\ UNCHANGED <<progVars, duration, interrupted, end_time, sessVars, msg, outVars, msgs_left>>

\* Ctrl-C: asyncio.run cancels the main task, once, where it is suspended
Interrupt ==
    /\ ~interrupted
    /\ interrupted' = TRUE
    /\ \/ /\ sup_pc = "sleep"
          /\ FinallyBlock("cancelled")
       \/ /\ sup_pc = "gather"
          /\ sup_exit' = "cancelled"
          /\ UNCHANGED <<sup_pc, tasks>>
    /\ UNCHANGED <<progVars, duration, idx, current_task, end_time, wake_at, now,
                   sessVars, msg, outVars, msgs_left>>

\* the gather of the finally block is over: every task it awaits is done
SupGatherDone ==
    /\ sup_pc = "gather"
    /\ Done(tasks[current_task])
    /\ sup_pc' = sup_exit
    /\ UNCHANGED <<progVars, duration, sup_exit, interrupted, idx, current_task, end_time,
                   wake_at, now, tasks, sessVars, msg, outVars, msgs_left>>

(* ---------------------- mempool monitor: sampler ----------------------- *)
\* snapshot_and_reset_interval resetting the cumulative counters as well
snapshot_and_reset_interval_ResetsTotals(st) ==
    [data |-> [mempool_size |-> Cardinality(st.pending),
               new_pending |-> st.new_pending_since_last,
               confirmed |-> st.confirmed_since_last,
               net_pending_delta |-> st.new_pending_since_last - st.confirmed_since_last,
               total_seen_pending |-> st.total_seen_pending,
               total_confirmed |-> st.total_confirmed],
     st |-> [st EXCEPT !.new_pending_since_last = 0, !.confirmed_since_last = 0,
                       !.total_seen_pending = 0, !.total_confirmed = 0]]

\* snapshot_and_reset_interval that leaves the interval counters as they are
snapshot_and_reset_interval_NoReset(st) ==
    [data |-> [mempool_size |-> Cardinality(st.pending),
               new_pending |-> st.new_pending_since_last,
               confirmed |-> st.confirmed_since_last,
               net_pending_delta |-> st.new_pending_since_last - st.confirmed_since_last,
               total_seen_pending |-> st.total_seen_pending,
               total_confirmed |-> st.total_confirmed],
     st |-> st]

\* NodeMempoolState.snapshot_and_reset_interval: the data returned and the
\* state afterwards
snapshot_and_reset_interval(st) ==
    [data |-> [mempool_size |-> Cardinality(st.pending),
               new_pending |-> st.new_pending_since_last,
               confirmed |-> st.confirmed_since_last,
               net_pending_delta |-> st.new_pending_since_last - st.confirmed_since_last,
               total_seen_pending |-> st.total_seen_pending,
               total_confirmed |-> st.total_confirmed],
     st |-> [st EXCEPT !.new_pending_since_last = 0, !.confirmed_since_last = 0]]

\* the JSON line of one interval; the run has one node
SnapshotLine(t, name, node_data) ==
    [timestamp |-> t,
     total_mempool_size |-> node_data.mempool_size,
     total_new_pending |-> node_data.new_pending,
     total_confirmed |-> node_data.confirmed,
     total_net_pending_delta |-> node_data.net_pending_delta,
     nodes |-> [n \in {name} |-> node_data]]

\* one pass of sampler_task's while True loop at time t, with start time t0
SamplerPass(t, t0) ==
    IF t - t0 >= duration
    THEN /\ sampler' = [sampler EXCEPT !.pc = "done", !.start = t0]
         /\ UNCHANGED <<state, snapshots>>
    ELSE LET snap == snapshot_and_reset_interval(state)
         IN  /\ state' = snap.st
             /\ snapshots' = Append(snapshots, SnapshotLine(t, endpoints[1], snap.data))
             /\ sampler' = [pc |-> "sleep", start |-> t0, wake_at |-> t + SampleInterval]

\* sampler_task runs: its first pass, or the pass after asyncio.sleep(interval)
SamplerStep ==
    /\ main_pc = "monitoring"
    /\ \/ /\ sampler.pc = "start"
          /\ now' = now
          /\ SamplerPass(now, now)
       \/ /\ sampler.pc = "sleep"
          /\ \E late \in 0..MaxLate :
                /\ now' = sampler.wake_at + late
                /\ SamplerPass(sampler.wake_at + late, sampler.start)
    /\ UNCHANGED <<monitor, endpoints, main_pc, jw, duration, sup_pc, sup_exit, interrupted, idx,
                   current_task, end_time, wake_at, tasks, sessVars, msg,
                   writer, added, queue, global_counter, msgs_left>>

\* a finally block that marks every task cancelled, finished or not
MempoolFinally_CancelsAll ==
    /\ main_pc = "monitoring"
    /\ sampler.pc = "done"
    /\ main_pc' = "gather"
    /\ tasks' = [k \in DOMAIN tasks |-> [tasks[k] EXCEPT !.status = "cancelling"]]
    /\ UNCHANGED <<monitor, endpoints, sampler, snapshots, jw, supVars, sessVars, msg,
                   outVars, msgs_left>>

\* main_async's finally once `await sampler` is over: every monitor task is
\* cancelled and the gather of them is awaited
MempoolFinally ==
    /\ main_pc = "monitoring"
    /\ sampler.pc = "done"
    /\ main_pc' = "gather"
    /\ tasks' = [k \in DOMAIN tasks |->
                    IF Done(tasks[k]) THEN tasks[k]
                    ELSE [tasks[k] EXCEPT !.status = "cancelling"]]
    /\ UNCHANGED <<monitor, endpoints, sampler, snapshots, jw, supVars, sessVars, msg,
                   outVars, msgs_left>>

\* the gather is over: every monitor task is done; main_async returns
MempoolGatherDone ==
    /\ main_pc = "gather"
    /\ \A k \in DOMAIN tasks : Done(tasks[k])
    /\ main_pc' = "returned"
    /\ UNCHANGED <<monitor, endpoints, sampler, snapshots, jw, supVars, tasks, sessVars, msg,
                   outVars, msgs_left>>

(* ------------------------------ main_async ----------------------------- *)
\* main_async up to its first await. Without a usable endpoint the block
\* monitor raises RuntimeError; the transaction monitor prints and returns 0,
\* the mempool monitor prints and returns. With endpoints, the block and the
\* transaction monitor call monitor_with_failover and the mempool monitor
\* creates its monitor_node tasks.
MainAsync ==
    /\ main_pc = "start"
    /\ IF endpoints = << >>
       THEN /\ main_pc' = IF monitor = "block" THEN "raised" ELSE "returned"
            /\ UNCHANGED <<sup_pc, tasks, sampler>>
       ELSE /\ main_pc' = "monitoring"
            /\ sup_pc' = IF monitor = "mempool" THEN "none" ELSE "start"
            /\ tasks' = IF monitor = "mempool"
                        THEN [i \in 1..Len(endpoints) |->
                                [name |-> endpoints[i], status |-> "pending"]]
                        ELSE tasks
            /\ sampler' = IF monitor = "mempool"
                          THEN [sampler EXCEPT !.pc = "start"] ELSE sampler
    /\ UNCHANGED <<monitor, endpoints, snapshots, jw, duration, sup_exit, interrupted, idx, current_task,
                   end_time, wake_at, now, sessVars, msg, outVars, msgs_left>>

(* ------------------------ block monitor: main -------------------------- *)
\* asyncio.run(main_async(...)) is over
BlockMainAsyncOver ==
    \/ main_pc = "raised"
    \/ main_pc = "monitoring" /\ sup_pc \in {"returned", "cancelled"}

\* a main that closes the writer only when asyncio.run returned normally
BlockMainExit_CloseOnReturnOnly ==
    /\ monitor = "block"
    /\ BlockMainAsyncOver
    /\ writer' = IF main_pc = "monitoring" /\ sup_pc = "returned"
                 THEN WriterClose(writer) ELSE writer
    /\ main_pc' = IF main_pc = "raised" THEN "exit_error" ELSE "exit"
    /\ UNCHANGED <<monitor, endpoints, sampler, snapshots, jw, supVars, tasks, sessVars,
                   msg, added, queue, global_counter, state, msgs_left>>

\* main once asyncio.run is over: it returned (the budget has elapsed), raised
\* KeyboardInterrupt (caught) or raised main_async's RuntimeError; finally:
\* writer.close(), then main goes on or the error propagates
BlockMainExit ==
    /\ monitor = "block"
    /\ BlockMainAsyncOver
    /\ writer' = WriterClose(writer)
    /\ main_pc' = IF main_pc = "raised" THEN "exit_error" ELSE "exit"
    /\ UNCHANGED <<monitor, endpoints, sampler, snapshots, jw, supVars, tasks, sessVars,
                   msg, added, queue, global_counter, state, msgs_left>>

(* --------------------------- specification ----------------------------- *)
\* what every run starts from: no task, no session, nothing written
InitRest(d, n) ==
    /\ sampler = [pc |-> "none", start |-> 0, wake_at |-> 0]
    /\ snapshots = << >>
    /\ duration = d
    /\ sup_pc = "none"
    /\ sup_exit = "none"
    /\ interrupted = FALSE
    /\ idx = 0
    /\ current_task = 0
    /\ end_time = 0
    /\ wake_at = 0
    /\ tasks = << >>
    /\ now = 0
    /\ outstanding = Unbound
    /\ blocks_in_progress = Unbound
    /\ next_request_id = Unbound
    /\ heads_sub_id = Unbound
    /\ pending_sub_id = Unbound
    /\ pending_seen = Unbound
    /\ msg = Unbound
    /\ sent = Unbound
    /\ issued = Unbound
    /\ applied = Unbound
    /\ added = << >>
    /\ queue = << >>
    /\ global_counter = 0
    /\ state = NewNodeMempoolState
    /\ msgs_left = n

\* the state at the program's start, for a run of `mon` with the arguments d
\* (--duration) and a delivery budget of n frames; the mempool monitor is run
\* on a services file with one endpoint
InitOf(mon, d, n) ==
    /\ monitor = mon
    /\ endpoints \in {<< >>, IF mon = "mempool" THEN <<Endpoints[1]>> ELSE Endpoints}
    /\ main_pc = "start"
    /\ writer = NewBlockWriter
    /\ jw = NewJsonWriter(FlushEvery)
    /\ InitRest(d, n)

\* a short run of any of the three programs, rich in frames
Init == \E mon \in {"block", "tx", "mempool"} : InitOf(mon, ShortDuration, MaxMsgs)

Next ==
    \/ MainAsync
    \/ BlockMainExit
    \/ SupStart
    \/ SupWake
    \/ Interrupt
    \/ SupGatherDone
    \/ \E k \in DOMAIN tasks : SessStart(k)
    \/ \E k \in DOMAIN tasks : SessConnectFail(k)
    \/ \E k \in DOMAIN tasks : SessDrop(k)
    \/ \E k \in DOMAIN tasks : SessCancelled(k)
    \/ \E k \in DOMAIN tasks : RecvBlock(k)
    \/ \E k \in DOMAIN tasks : RecvTx(k)
    \/ \E k \in DOMAIN tasks : RecvMempool(k)
    \/ SamplerStep
    \/ MempoolFinally
    \/ MempoolGatherDone

Spec == Init /\ [][Next]_vars

\* a long run of the block or the transaction monitor: many sessions, few frames
SupInit == \E mon \in {"block", "tx"} : InitOf(mon, LongDuration, SupMsgs)

SupNext ==
    \/ MainAsync
    \/ BlockMainExit
    \/ SupStart
    \/ SupWake
    \/ Interrupt
    \/ SupGatherDone
    \/ \E k \in DOMAIN tasks : SessStart(k)
    \/ \E k \in DOMAIN tasks : SessConnectFail(k)
    \/ \E k \in DOMAIN tasks : SessDrop(k)
    \/ \E k \in DOMAIN tasks : SessCancelled(k)
    \/ \E k \in DOMAIN tasks : RecvBlock(k)
    \/ \E k \in DOMAIN tasks : RecvTx(k)

SupSpec == SupInit /\ [][SupNext]_vars

\* the same runs on an event loop that runs what is ready: main_async and the
\* supervisor go on when what they await is over (a call, a sleep, the gather
\* of a cancelled task), and a cancelled task gets its CancelledError. Whether
\* a session connects, receives, fails or goes on for ever is left open.
SupFairSpec ==
    /\ SupInit
    /\ [][SupNext]_vars
    /\ WF_vars(MainAsync)
    /\ WF_vars(SupStart)
    /\ WF_vars(SupWake)
    /\ WF_vars(SupGatherDone)
    /\ WF_vars(\E k \in DOMAIN tasks : SessCancelled(k))

\* a run of the transaction monitor over several sessions with a node that
\* answers
TxInit == InitOf("tx", TxDuration, TxMsgs)

TxNext ==
    \/ MainAsync
    \/ SupStart
    \/ SupWake
    \/ Interrupt
    \/ SupGatherDone
    \/ \E k \in DOMAIN tasks : SessStart(k)
    \/ \E k \in DOMAIN tasks : SessConnectFail(k)
    \/ \E k \in DOMAIN tasks : SessDrop(k)
    \/ \E k \in DOMAIN tasks : SessCancelled(k)
    \/ \E k \in DOMAIN tasks : RecvTxAnswering(k)

TxSpec == TxInit /\ [][TxNext]_vars

\* a run of the block or the transaction monitor over several sessions with a
\* node that answers
SessionsInit == \E mon \in {"block", "tx"} : InitOf(mon, TxDuration, TxMsgs)

SessionsNext ==
    \/ MainAsync
    \/ BlockMainExit
    \/ SupStart
    \/ SupWake
    \/ Interrupt
    \/ SupGatherDone
    \/ \E k \in DOMAIN tasks : SessStart(k)
    \/ \E k \in DOMAIN tasks : SessConnectFail(k)
    \/ \E k \in DOMAIN tasks : SessDrop(k)
    \/ \E k \in DOMAIN tasks : SessCancelled(k)
    \/ \E k \in DOMAIN tasks : RecvBlockAnswering(k)
    \/ \E k \in DOMAIN tasks : RecvTxAnswering(k)

SessionsSpec == SessionsInit /\ [][SessionsNext]_vars

(* ------------------ the classification of a transaction ---------------- *)
\* what a node may send as a transaction's value, input and to
MetaValues == {None, ToHex(0), ToHex(5)}
MetaInputs == {NoStr, "", "0x", "0x0", "0xa9059cbb"}
MetaTos == {NoStr, "", "0xto"}

\* what a node may send as a log's topics: none, an empty list, a first topic
\* that is the Transfer signature in either case, another signature or not a
\* string, and the Transfer signature in second place
LogTopics ==
    {None, List(<< >>), List(<<Str(ApprovalTopic), Str(TRANSFER_TOPIC)>>)}
    \cup {List(<<t>>) : t \in {Str(TRANSFER_TOPIC), Str(TransferTopicUpper),
                               Str(ApprovalTopic), [tag |-> "int", val |-> 0]}}
Logs == {[topics |-> t] : t \in LogTopics}
ReceiptLogs ==
    {None} \cup {List(l) : l \in UNION {[1..n -> Logs] : n \in 0..MaxLogs}}

\* answers to the receipt requests the node holds, with any logs
ReceiptInbound ==
    {[type |-> "resp", id |-> rid,
      result |-> [NodeReceipt(sent[rid].param) EXCEPT !.status = st, !.logs = l]] :
        rid \in DOMAIN sent, st \in {"0x0", "0x1"}, l \in ReceiptLogs}
    \cup {[type |-> "resp", id |-> rid, result |-> None] : rid \in DOMAIN sent}

RecvReceipt(k) ==
    /\ monitor = "tx"
    /\ tasks[k].status = "running"
    /\ \E m \in ReceiptInbound : Recv(k, m, TxOnMessage(CurOf(k, m), m))

\* a session of the transaction monitor that saw t1 pending, fetched its block
\* and now awaits its receipt; the block gave t1 any value, input and to
ClassifyInit ==
    /\ monitor = "tx"
    /\ endpoints = Endpoints
    /\ main_pc = "monitoring"
    /\ sampler = [pc |-> "none", start |-> 0, wake_at |-> 0]
    /\ snapshots = << >>
    /\ jw = NewJsonWriter(FlushEvery)
    /\ duration = ShortDuration
    /\ sup_pc = "sleep"
    /\ sup_exit = "none"
    /\ interrupted = FALSE
    /\ idx = 1
    /\ current_task = 1
    /\ end_time = ShortDuration
    /\ wake_at = Min(SleepMax, Max(SleepMin, ShortDuration))
    /\ tasks = <<[name |-> Endpoints[1], status |-> "running"]>>
    /\ now = 0
    /\ \E v \in MetaValues, i \in MetaInputs, t \in MetaTos :
          outstanding =
            MapPut(EmptyMap, FirstRequestId + 1,
                   [kind |-> "receipt",
                    meta |-> [node_name |-> Endpoints[1], tx_hash |-> "t1",
                              value |-> v, input |-> i, to |-> t,
                              block_number |-> ChainNumber("hB"), send_ts |-> 0]])
    /\ blocks_in_progress = EmptyMap
    /\ next_request_id = FirstRequestId + 2
    /\ heads_sub_id = SubId(HeadsSub)
    /\ pending_sub_id = SubId(PendingSub)
    /\ pending_seen = EmptyMap
    /\ msg = [type |-> "resp", id |-> FirstRequestId, result |-> None]
    /\ sent = MapPut(EmptyMap, FirstRequestId + 1,
                     [method |-> "eth_getTransactionReceipt", param |-> "t1"])
    /\ issued = <<FirstRequestId, FirstRequestId + 1>>
    /\ applied = EmptyMap
    /\ writer = NewBlockWriter
    /\ added = << >>
    /\ queue = << >>
    /\ global_counter = 0
    /\ state = NewNodeMempoolState
    /\ msgs_left = 1

ClassifyNext == \E k \in DOMAIN tasks : RecvReceipt(k)

ClassifySpec == ClassifyInit /\ [][ClassifyNext]_vars

(* ----------------------- a writer driven on its own -------------------- *)
\* records a caller may hand to JsonBlockWriter.add_record
DriverBlockRecords ==
    {[hash |-> h, transactions |-> [count |-> c]] : h \in BlockHashes, c \in 0..2}

\* records a caller may put on json_writer's queue
DriverTxRecords == {[tx |-> [hash |-> t]] : t \in TxHashes}

Closed(fh) == fh # << >> /\ fh[Len(fh)] = TokClose

\* writer.add_record(record)
DriveAddRecord ==
    /\ main_pc = "driver"
    /\ monitor = "block"
    /\ ~Closed(writer.fh)
    /\ Len(added) < MaxRecords
    /\ \E record \in DriverBlockRecords :
          /\ writer' = WriterAddRecord(writer, record)
          /\ added' = Append(added, record)
    /\ UNCHANGED <<progVars, supVars, tasks, sessVars, msg, queue, global_counter,
                   state, msgs_left>>

\* writer.close()
DriveClose ==
    /\ main_pc = "driver"
    /\ monitor = "block"
    /\ ~Closed(writer.fh)
    /\ writer' = WriterClose(writer)
    /\ UNCHANGED <<progVars, supVars, tasks, sessVars, msg, added, queue, global_counter,
                   state, msgs_left>>

\* await queue.put(item): a record, or None as the end-of-stream signal
DrivePut ==
    /\ main_pc = "driver"
    /\ monitor = "tx"
    /\ Len(queue) < MaxRecords + 1
    /\ \E item \in DriverTxRecords \cup {None} : queue' = Append(queue, item)
    /\ UNCHANGED <<progVars, supVars, tasks, sessVars, msg, writer, added, global_counter,
                   state, msgs_left>>

\* the json_writer task starts: the file is opened and "[\n" written
JsonWriterStart ==
    /\ main_pc = "driver"
    /\ monitor = "tx"
    /\ jw.pc = "created"
    /\ jw' = [jw EXCEPT !.pc = "get", !.f = <<TokOpen>>]
    /\ UNCHANGED <<monitor, endpoints, main_pc, sampler, snapshots, supVars, tasks,
                   sessVars, msg, outVars, msgs_left>>

\* `item = await queue.get()` returns the next item and the loop body runs
JsonWriterGet ==
    /\ main_pc = "driver"
    /\ monitor = "tx"
    /\ jw.pc = "get"
    /\ jw.taken < Len(queue)
    /\ jw' = JsonWriterItem(jw, queue[jw.taken + 1])
    /\ UNCHANGED <<monitor, endpoints, main_pc, sampler, snapshots, supVars, tasks,
                   sessVars, msg, outVars, msgs_left>>

\* a writer with any flush threshold, in the hands of a caller
WriterInit ==
    /\ monitor \in {"block", "tx"}
    /\ endpoints = Endpoints
    /\ main_pc = "driver"
    /\ writer \in {JsonBlockWriter(n) : n \in 0..FlushTxCount}
    /\ jw \in {NewJsonWriter(n) : n \in 1..MaxFlushEvery}
    /\ InitRest(ShortDuration, 0)

WriterNext ==
    \/ DriveAddRecord
    \/ DriveClose
    \/ DrivePut
    \/ JsonWriterStart
    \/ JsonWriterGet

WriterSpec == WriterInit /\ [][WriterNext]_vars

\* a run of the mempool monitor alone. The event loop runs every task that is
\* ready: the sampler wakes from its sleep, a cancelled task gets its
\* CancelledError, main_async goes on when what it awaits is over. What the
\* node sends, and whether a connection holds, is up to the environment.
MempoolInit == InitOf("mempool", ShortDuration, SupMsgs)

MempoolNext ==
    \/ MainAsync
    \/ \E k \in DOMAIN tasks : SessStart(k)
    \/ \E k \in DOMAIN tasks : SessConnectFail(k)
    \/ \E k \in DOMAIN tasks : SessDrop(k)
    \/ \E k \in DOMAIN tasks : SessCancelled(k)
    \/ \E k \in DOMAIN tasks : RecvMempool(k)
    \/ SamplerStep
    \/ MempoolFinally
    \/ MempoolGatherDone

MempoolSpec ==
    /\ MempoolInit
    /\ [][MempoolNext]_vars
    /\ WF_vars(MainAsync)
    /\ WF_vars(\E k \in DOMAIN tasks : SessStart(k) \/ SessConnectFail(k))
    /\ WF_vars(\E k \in DOMAIN tasks : SessCancelled(k))
    /\ WF_vars(SamplerStep)
    /\ WF_vars(MempoolFinally)
    /\ WF_vars(MempoolGatherDone)

(* ============================== claims ================================= *)
\* a call of monitor_node is in its receive loop: its locals are bound
Live == \E k \in DOMAIN tasks : tasks[k].status = "running"
\* this step is one iteration of a receive loop
RecvStep == msgs_left' = msgs_left - 1
\* the records handed to the output so far, in order
Emitted == IF monitor = "block" THEN WriterRecords(writer) ELSE queue
Last(seq) == seq[Len(seq)]
IssuedIds == {issued[i] : i \in 1..Len(issued)}
\* subscription ids of the session's monitor
Reserved == IF monitor = "block" THEN {1} ELSE {1, 2}
\* what the chain says of a block's transactions
ChainSuccessCount(h) ==
    Cardinality({i \in 1..Len(ChainTxs(h)) : ChainTxOk(ChainTxs(h)[i])})
ChainFeeTotal(h) ==
    SeqSum([i \in 1..Len(ChainTxs(h)) |->
                ChainTxGasUsed(ChainTxs(h)[i]) * ChainTxGasPrice(ChainTxs(h)[i])])
TimesEmitted(recs, h) == Cardinality({i \in 1..Len(recs) : recs[i].hash = h})

\* C1 (as claimed): in the block monitor every block hash is handed to the
\* writer at most once, and a record is handed over only when as many receipts
\* as the block has transactions were added to its aggregate.
C1_EachHashEmittedOnce ==
    [][monitor = "block" =>
         /\ \A h \in BlockHashes : TimesEmitted(Emitted', h) <= 1
         /\ (RecvStep /\ Len(Emitted') > Len(Emitted)) =>
                Len(applied'[Last(Emitted').hash]) = Last(Emitted').transactions.count
      ]_vars

\* C2 (as claimed): every record the block monitor emits has success_count
\* equal to the number of successful transactions of its block and fee_total
\* equal to the sum of gasUsed * effectiveGasPrice over the block's transactions.
C2_RecordTotalsMatchChain ==
    monitor = "block" =>
        \A i \in 1..Len(Emitted) :
            /\ Emitted[i].transactions.success.successful
                    = ChainSuccessCount(Emitted[i].hash)
            /\ Emitted[i].transactions.fees.total_wei = ChainFeeTotal(Emitted[i].hash)

\* the frame is the node's answer to eth_getBlockByHash for a block without
\* transactions
ZeroTxBlockResponse(m) ==
    m.type = "resp" /\ m.result.tag = "block" /\ Len(m.result.transactions) = 0

\* C3: in the block monitor, the step that handles the response carrying a
\* fetched block with zero transactions appends that block's record to the
\* writer with success_rate 0.0, issues no request and leaves no aggregate of
\* that block in blocks_in_progress.
C3_ZeroTxBlockEmittedAtOnce ==
    [][(/\ monitor = "block"
        /\ RecvStep
        /\ ZeroTxBlockResponse(msg')
        /\ msg'.id \in DOMAIN outstanding
        /\ outstanding[msg'.id].kind = "block")
       => /\ tasks' = tasks
          /\ Len(Emitted') = Len(Emitted) + 1
          /\ Last(Emitted').hash = msg'.result.hash
          /\ Last(Emitted').transactions.count = 0
          /\ Last(Emitted').transactions.success.success_rate_percent = FloatZero
          /\ next_request_id' = next_request_id
          /\ issued' = issued
          /\ DOMAIN sent' \subseteq DOMAIN sent
          /\ msg'.result.hash \notin DOMAIN blocks_in_progress'
      ]_vars

C3_Witness ==
    /\ monitor = "block"
    /\ Live
    /\ ZeroTxBlockResponse(msg)
    /\ Len(Emitted) >= 1
    /\ Last(Emitted).hash = msg.result.hash
    /\ Last(Emitted).transactions.success.success_rate_percent = FloatZero
    /\ msg.result.hash \notin DOMAIN blocks_in_progress

\* C4: in every monitor, no entry whose response has already arrived remains in
\* the Correlation Table: every id in the table is one the node has yet to
\* answer.
C4_NoAnsweredEntryRemains ==
    Live => DOMAIN outstanding \subseteq DOMAIN sent

\* C5: while a session is live, the ids handed to the Correlation Table are
\* 100, 101, ... in order: the counter is 100 plus their number, they are
\* pairwise distinct, at least 100, below the counter and never 1 or 2.
C5_RequestIdsDistinct ==
    Live =>
        /\ next_request_id = FirstRequestId + Len(issued)
        /\ \A i \in 1..Len(issued) :
              /\ issued[i] >= FirstRequestId
              /\ issued[i] < next_request_id
              /\ issued[i] \notin {1, 2}
        /\ \A i, j \in 1..Len(issued) : i # j => issued[i] # issued[j]
        /\ DOMAIN outstanding \subseteq IssuedIds

C5_Witness ==
    /\ Live
    /\ Len(issued) >= 3
    /\ Cardinality(DOMAIN outstanding) >= 2

\* C6: a response whose id is neither a reserved subscription id nor in the
\* Correlation Table leaves the session running and the table, the aggregates,
\* the output and the request-id counter as they were.
C6_UnknownIdDiscarded ==
    [][(/\ RecvStep
        /\ msg'.type = "resp"
        /\ msg'.id \notin Reserved
        /\ msg'.id \notin DOMAIN outstanding)
       => /\ tasks' = tasks
          /\ UNCHANGED <<outstanding, blocks_in_progress, pending_seen,
                         next_request_id, heads_sub_id, pending_sub_id>>
          /\ UNCHANGED outVars
      ]_vars

C6_Witness ==
    /\ monitor = "block"
    /\ Live
    /\ msg.type = "resp"
    /\ msg.id = StrayId
    /\ DOMAIN outstanding # {}
    /\ DOMAIN blocks_in_progress # {}

\* C7: the k-th session the supervisor starts (from 0) targets
\* endpoints[k mod N].
C7_RoundRobin ==
    \A k \in 1..Len(tasks) :
        tasks[k].name = Endpoints[((k - 1) % Len(Endpoints)) + 1]

C7_Witness ==
    /\ Len(tasks) > Len(Endpoints)
    /\ tasks[Len(Endpoints) + 1].name = Endpoints[1]

\* C8: at most one session task is not done.
C8_AtMostOneActive ==
    Cardinality({k \in DOMAIN tasks : ~Done(tasks[k])}) <= 1

C8_Witness ==
    /\ Len(tasks) >= 2
    /\ tasks[1].status = "returned"
    /\ tasks[2].status = "running"

\* C9: once monitor_with_failover has returned or has been left by
\* cancellation, every session task is done.
C9_NoSessionLeftRunning ==
    sup_pc \in {"returned", "cancelled"} => \A k \in DOMAIN tasks : Done(tasks[k])

C9_Witness ==
    /\ sup_pc \in {"returned", "cancelled"}
    /\ current_task # 0
    /\ tasks[current_task].status = "cancelled"

\* the place of an endpoint name in the endpoint list
EndpointIndex(name) == CHOOSE i \in 1..Len(Endpoints) : Endpoints[i] = name

\* C10 (as claimed): a session that ended by itself while budget remained is
\* always followed by a new session: the supervisor never returns with a last
\* session that ended by itself.
C10_AlwaysRestarted ==
    sup_pc = "returned" =>
        (current_task = 0 \/ tasks[current_task].status # "returned")

\* C10 (amended): when the supervisor wakes to find its session ended by itself
\* and budget remaining, it goes on: in that same pass it starts a new session
\* against the endpoint after the ended one's and sleeps again.
C10_RestartAtNextPoll ==
    [][(/\ sup_pc = "sleep"
        /\ now' > now
        /\ now' < end_time
        /\ current_task # 0
        /\ tasks[current_task].status = "returned")
       => /\ sup_pc' = "sleep"
          /\ Len(tasks') = Len(tasks) + 1
          /\ current_task' = Len(tasks')
          /\ Last(tasks').status = "pending"
          /\ Last(tasks').name =
                Endpoints[(EndpointIndex(tasks[current_task].name) % Len(Endpoints)) + 1]
      ]_vars

C10_Witness ==
    /\ sup_pc = "sleep"
    /\ Len(tasks) >= 3
    /\ tasks[1].status = "returned"
    /\ tasks[2].status = "returned"

\* C11: with an empty endpoint list no monitor completes normally: neither
\* main_async nor monitor_with_failover returns; they end in an error.
C11_EmptyEndpointListIsAnError ==
    endpoints = << >> => (main_pc # "returned" /\ sup_pc # "returned")

\* C12 (as claimed): in the mempool monitor, a session that ended by itself while run time
\* remains (the sampler is between two samples) is followed by a new session.
C12_MempoolSessionReplaced ==
    (/\ monitor = "mempool"
     /\ sampler.pc = "sleep"
     /\ \E k \in DOMAIN tasks : tasks[k].status = "returned")
    ~> (\E k \in DOMAIN tasks : tasks[k].status \in {"pending", "running"})

\* C12 (amended): the mempool monitor has one session per endpoint, created at
\* start-up, and never another: a session that has ended stays ended, and once
\* every session has ended the node state changes only by the sampler's reset
\* of the interval counters, while the run goes on to its normal end.
C12_MempoolSessionNotReplaced ==
    [][monitor = "mempool" =>
         /\ Len(tasks') <= Len(endpoints)
         /\ \A k \in DOMAIN tasks : Done(tasks[k]) => tasks'[k] = tasks[k]
         /\ (tasks # << >> /\ \A k \in DOMAIN tasks : Done(tasks[k]))
                => /\ state'.pending = state.pending
                   /\ state'.total_seen_pending = state.total_seen_pending
                   /\ state'.total_confirmed = state.total_confirmed
                   /\ main_pc' # "raised"
      ]_vars

C12_Witness ==
    /\ monitor = "mempool"
    /\ main_pc = "returned"
    /\ Len(tasks) = 1
    /\ tasks[1].status = "returned"
    /\ state.total_seen_pending >= 1
    /\ Len(snapshots) >= 2
    /\ Last(snapshots).total_new_pending = 0

\* the frame is a newPendingTransactions notification of this session's
\* subscription
PendingNotification(m) ==
    /\ m.type = "notif"
    /\ pending_sub_id # None
    /\ m.subscription = pending_sub_id

\* the frame is the answer, with a block, to a block request of the table
BlockResponse(m) ==
    /\ m.type = "resp"
    /\ m.id \in DOMAIN outstanding
    /\ outstanding[m.id].kind = "block"
    /\ m.result # None
    /\ m.result.tag = "block"

BlockTxHashes(block) == {block.transactions[i].hash : i \in 1..Len(block.transactions)}

\* C19: in the mempool monitor, the announcement of a hash that is already
\* pending leaves the node state as it is, the announcement of a new hash adds
\* it and counts it once, and a fetched block removes and counts exactly those
\* of its hashes that are pending: a hash that is not pending changes nothing.
C19_MempoolStateDeduplicated ==
    [][(monitor = "mempool" /\ RecvStep /\ tasks' = tasks) =>
         /\ (PendingNotification(msg') /\ msg'.result.hash \in state.pending)
                => state' = state
         /\ (PendingNotification(msg') /\ msg'.result.hash \notin state.pending)
                => /\ state'.pending = state.pending \cup {msg'.result.hash}
                   /\ state'.new_pending_since_last = state.new_pending_since_last + 1
                   /\ state'.total_seen_pending = state.total_seen_pending + 1
         /\ BlockResponse(msg')
                => LET hit == BlockTxHashes(msg'.result) \cap state.pending
                   IN  /\ state'.pending = state.pending \ hit
                       /\ state'.confirmed_since_last =
                                state.confirmed_since_last + Cardinality(hit)
                       /\ state'.total_confirmed = state.total_confirmed + Cardinality(hit)
                       /\ state'.total_seen_pending = state.total_seen_pending
      ]_vars

C19_Witness ==
    /\ monitor = "mempool"
    /\ Live
    /\ msg.type = "resp"
    /\ msg.result # None
    /\ msg.result.tag = "block"
    /\ Len(msg.result.transactions) = 2
    /\ state.total_seen_pending = 1
    /\ state.total_confirmed = 1
    /\ state.pending = {}

\* C20: in the mempool monitor, the step that writes a snapshot sets both
\* interval counters to zero and leaves the pending set and the cumulative
\* counters as they were; no other step lowers an interval counter; the
\* cumulative counters never decrease.
C20_SnapshotResetsIntervalOnly ==
    [][monitor = "mempool" =>
         /\ Len(snapshots') > Len(snapshots)
                => state' = [state EXCEPT !.new_pending_since_last = 0,
                                          !.confirmed_since_last = 0]
         /\ Len(snapshots') = Len(snapshots)
                => /\ state'.new_pending_since_last >= state.new_pending_since_last
                   /\ state'.confirmed_since_last >= state.confirmed_since_last
         /\ state'.total_seen_pending >= state.total_seen_pending
         /\ state'.total_confirmed >= state.total_confirmed
      ]_vars

C20_Witness ==
    /\ monitor = "mempool"
    /\ Len(snapshots) >= 2
    /\ Last(snapshots).total_new_pending >= 1
    /\ Last(snapshots).total_confirmed >= 1
    /\ state.new_pending_since_last = 0
    /\ state.confirmed_since_last = 0
    /\ state.total_seen_pending >= 1
    /\ state.total_confirmed >= 1
    /\ state.pending # {}

\* the tokens of a JSON array's body: the records, a separator before every
\* record but the first
ArrayBody(recs) ==
    [i \in 1..(IF recs = << >> THEN 0 ELSE 2 * Len(recs) - 1) |->
        IF i % 2 = 1 THEN TokRec(recs[(i + 1) \div 2]) ELSE TokSep]
ClosedArray(recs) == <<TokOpen>> \o ArrayBody(recs) \o <<TokClose>>
IsPrefix(a, b) == Len(a) <= Len(b) /\ a = SubSeq(b, 1, Len(a))
\* the items put on the queue before the first end-of-stream signal
RECURSIVE BeforeNone(_)
BeforeNone(q) ==
    IF q = << >> \/ Head(q) = None THEN << >> ELSE <<Head(q)>> \o BeforeNone(Tail(q))

\* C13: once json_writer has processed the end-of-stream signal, the file is
\* the closed JSON array of exactly the records put on the queue before the
\* signal, each once and in order, and the count returned is their number.
C13_TxWriterRoundTrip ==
    jw.pc = "returned" =>
        /\ jw.f = ClosedArray(BeforeNone(queue))
        /\ jw.ret = Len(BeforeNone(queue))

C13_Witness ==
    /\ jw.pc = "returned"
    /\ jw.flush_every = 2
    /\ jw.ret = 3
    /\ Len(queue) = 4

\* C14: once JsonBlockWriter.close() has run, the file is the closed JSON array
\* of exactly the records passed to add_record, each once and in call order, a
\* separator before every record but the first.
C14_BlockWriterRoundTrip ==
    Closed(writer.fh) => writer.fh = ClosedArray(added)

C14_Witness ==
    /\ Closed(writer.fh)
    /\ writer.flush_tx_count = 2
    /\ Len(added) = 3
    /\ added[1].transactions.count = 2
    /\ added[2].transactions.count = 0

\* C15: the records a writer holds in memory never number more than its flush
\* threshold: flush_every for json_writer, flush_tx_count for JsonBlockWriter.
C15_BufferBounded ==
    /\ Len(jw.batch) <= jw.flush_every
    /\ Len(writer.buffer) <= writer.flush_tx_count

\* the records json_writer has taken from the queue
RECURSIVE Records(_)
Records(q) ==
    IF q = << >> THEN << >>
    ELSE (IF Head(q) = None THEN << >> ELSE <<Head(q)>>) \o Records(Tail(q))
Accepted == IF monitor = "tx" THEN Records(SubSeq(queue, 1, jw.taken)) ELSE added
OnDisk == IF monitor = "tx" THEN FileRecords(jw.f) ELSE FileRecords(writer.fh)

\* C16: the records in the file are always a prefix of the records the writer
\* has accepted, and every step leaves the records already in the file in
\* place: the file's records before the step are a prefix of those after it.
C16_FileIsGrowingPrefix ==
    [][/\ IsPrefix(OnDisk', Accepted')
       /\ IsPrefix(OnDisk, OnDisk')
      ]_vars

C16_Witness ==
    /\ monitor = "block"
    /\ main_pc = "driver"
    /\ ~Closed(writer.fh)
    /\ Len(FileRecords(writer.fh)) = 2
    /\ Len(writer.buffer) = 1
    /\ Len(added) = 3

\* C17: in the transaction monitor the records put on the queue carry the
\* global_sequence values 1, 2, 3, ... in queue order, over all sessions of
\* the run, and the counter is the number of records queued.
C17_GlobalSequenceGapFree ==
    monitor = "tx" =>
        /\ \A i \in 1..Len(queue) : queue[i].tx.global_sequence = i
        /\ global_counter = Len(queue)

C17_Witness ==
    /\ monitor = "tx"
    /\ Len(queue) >= 2
    /\ queue[1].node # queue[2].node
    /\ \E k \in DOMAIN tasks : tasks[k].status = "cancelled"

\* the ids entered in the Correlation Table by this step
NewIds == DOMAIN outstanding' \ DOMAIN outstanding

\* C18: in the transaction monitor, the step that handles a fetched block
\* sends exactly one receipt request for each of the block's transactions that
\* is in pending_seen, removes those from pending_seen, sends nothing for the
\* others and queues no record; no other step enters a receipt request, and a
\* record is queued only for the transaction of a receipt request.
C18_ReceiptsOnlyForPendingSeen ==
    [][(monitor = "tx" /\ RecvStep /\ tasks' = tasks) =>
         /\ BlockResponse(msg') =>
                LET hit == BlockTxHashes(msg'.result) \cap DOMAIN pending_seen
                IN  /\ DOMAIN pending_seen' = DOMAIN pending_seen \ hit
                    /\ Cardinality(NewIds) = Cardinality(hit)
                    /\ Len(issued') = Len(issued) + Cardinality(hit)
                    /\ \A id \in NewIds :
                          /\ outstanding'[id].kind = "receipt"
                          /\ sent'[id].method = "eth_getTransactionReceipt"
                          /\ sent'[id].param = outstanding'[id].meta.tx_hash
                    /\ {outstanding'[id].meta.tx_hash : id \in NewIds} = hit
                    /\ queue' = queue
         /\ ~BlockResponse(msg') => \A id \in NewIds : outstanding'[id].kind = "block"
         /\ queue' # queue =>
                /\ msg'.id \in DOMAIN outstanding
                /\ outstanding[msg'.id].kind = "receipt"
                /\ queue' = Append(queue, Last(queue'))
                /\ Last(queue').tx.hash = outstanding[msg'.id].meta.tx_hash
      ]_vars

C18_Witness ==
    /\ monitor = "tx"
    /\ Live
    /\ msg.type = "resp"
    /\ msg.result # None
    /\ msg.result.tag = "block"
    /\ Len(msg.result.transactions) = 2
    /\ Len(issued) = 2
    /\ \E id \in DOMAIN outstanding :
          /\ DOMAIN outstanding = {id}
          /\ outstanding[id].kind = "receipt"
          /\ outstanding[id].meta.tx_hash = "t1"
    /\ DOMAIN pending_seen = {}

\* a frame that is malformed or lacks an expected field: one json.loads
\* rejects, or a newHeads notification whose header has no hash
Malformed(m) ==
    \/ m.type = "garbage"
    \/ m.type = "notif" /\ m.result.tag = "header" /\ m.result.hash = NoStr

\* C21: in every monitor, the step that receives a malformed frame leaves the
\* session running and the Correlation Table, the aggregates, the request-id
\* counter, the subscription ids and the output as they were.
C21_MalformedMessageIgnored ==
    [][(RecvStep /\ Malformed(msg'))
       => /\ tasks' = tasks
          /\ UNCHANGED <<outstanding, blocks_in_progress, pending_seen,
                         next_request_id, heads_sub_id, pending_sub_id>>
          /\ UNCHANGED outVars
      ]_vars

\* the endpoint name of the session that is in its receive loop
RunningName == (CHOOSE t \in {tasks[k] : k \in DOMAIN tasks} : t.status = "running").name

\* C22: in the block and the transaction monitor, the step that starts a
\* session leaves it with an empty Correlation Table, no aggregate in progress,
\* an empty pending_seen, no subscription id and the request-id counter at 100;
\* and a record is handed to the output only in answer to a request this
\* session issued and holds in its table, from an aggregate this session
\* created (block monitor), under this session's endpoint name (transaction
\* monitor).
C22_SessionStartsFresh ==
    [][/\ \A k \in DOMAIN tasks :
            (tasks[k].status = "pending" /\ tasks'[k].status = "running")
            => /\ outstanding' = EmptyMap
               /\ blocks_in_progress' = EmptyMap
               /\ pending_seen' = EmptyMap
               /\ next_request_id' = FirstRequestId
               /\ heads_sub_id' = None
               /\ pending_sub_id' = None
       /\ (RecvStep /\ tasks' = tasks /\ Len(Emitted') > Len(Emitted))
            => /\ msg'.id \in IssuedIds
               /\ msg'.id \in DOMAIN outstanding
               /\ monitor = "block" => Last(Emitted').hash \in DOMAIN applied'
               /\ monitor = "tx" => Last(Emitted').node = RunningName
      ]_vars

\* the second session of a block monitor run has emitted the record of hB in
\* answer to its requests 100..102, after a first session that was dropped
\* while it held the aggregate of a fetched block
C22_Witness ==
    /\ monitor = "block"
    /\ Len(tasks) = 2
    /\ tasks[1].status = "returned"
    /\ tasks[2].status = "running"
    /\ msgs_left = TxMsgs - 8
    /\ Len(added) = 1
    /\ Last(added).hash = "hB"
    /\ msg.type = "resp"
    /\ msg.id = FirstRequestId + 2
    /\ next_request_id = FirstRequestId + 3
    /\ outstanding = EmptyMap

\* the three predicates of the classification, on what the block said of the
\* transaction and on its receipt
IsCoinTransfer(meta) ==
    /\ meta.value # None
    /\ ParseHex(meta.value.digits, 0) > 0
    /\ meta.input \in {NoStr, "", "0x", "0x0"}
IsContractCall(meta) ==
    /\ meta.input \notin {NoStr, "", "0x", "0x0"}
    /\ meta.to \notin {NoStr, ""}
IsTokenTransfer(result) ==
    /\ result # None
    /\ result.logs # None
    /\ \E i \in 1..Len(result.logs.items) :
          LET topics == result.logs.items[i].topics
          IN  /\ topics # None
              /\ topics.items # << >>
              /\ topics.items[1].tag = "str"
              /\ StrLower(topics.items[1].chars) = TRANSFER_TOPIC

\* C23: the categories of a record put on the queue are never empty, hold no
\* label twice, hold "other" exactly when none of the three predicates holds of
\* the transaction, and then hold nothing else.
C23_CategoriesWellFormed ==
    [][(monitor = "tx" /\ RecvStep /\ tasks' = tasks /\ Len(queue') > Len(queue)) =>
         LET meta == outstanding[msg'.id].meta
             cats == Last(queue').tx.categories
             labels == {cats[i] : i \in 1..Len(cats)}
         IN  /\ cats # << >>
             /\ \A i, j \in 1..Len(cats) : i # j => cats[i] # cats[j]
             /\ "other" \in labels <=>
                    ~(\/ IsCoinTransfer(meta)
                      \/ IsContractCall(meta)
                      \/ IsTokenTransfer(msg'.result))
             /\ "other" \in labels => labels = {"other"}
             /\ labels \subseteq {"coin_transfer", "contract_call", "token_transfer", "other"}
      ]_vars

\* a receipt with two logs, neither of which starts with the Transfer
\* signature, of a transaction that is no transfer and no call: "other"
C23_Witness ==
    /\ monitor = "tx"
    /\ Len(queue) = 1
    /\ Last(queue).tx.categories = <<"other">>
    /\ msg.type = "resp"
    /\ msg.result # None
    /\ msg.result.logs # None
    /\ Len(msg.result.logs.items) = 2
    /\ msg.result.logs.items[2].topics = List(<<Str(ApprovalTopic), Str(TRANSFER_TOPIC)>>)

\* C24: monitor_with_failover, once called, is eventually left, whatever the
\* sessions do; it returns only when the budget has elapsed, and it is left by
\* cancellation only when the run was interrupted.
C24_SupervisorTerminates ==
    /\ (sup_pc = "start") ~> (sup_pc \in {"returned", "cancelled"})
    /\ [](sup_pc = "returned" => now >= end_time)
    /\ [](sup_pc = "cancelled" => interrupted)

\* the supervisor has returned at the end of the budget from a run in which a
\* session failed at once and the last one had to be cancelled
C24_Witness ==
    /\ sup_pc = "returned"
    /\ ~interrupted
    /\ now >= end_time
    /\ Len(tasks) >= 3
    /\ tasks[1].status = "returned"
    /\ Last(tasks).status = "cancelled"

\* the notification carries the identifier recorded for one of this session's
\* subscriptions
OfRecordedSubscription(m) ==
    \/ pending_sub_id # None /\ m.subscription = pending_sub_id
    \/ heads_sub_id # None /\ m.subscription = heads_sub_id

\* C25: the step that receives a notification whose subscription is not one
\* recorded from an acknowledgement (none is recorded yet, or it differs)
\* changes no state of the session and no output and sends no request; the
\* step that receives a response with a reserved id records its result as the
\* identifier of that subscription and changes nothing else, the Correlation
\* Table included.
C25_NotificationsMatchedBySubscription ==
    [][(RecvStep /\ tasks' = tasks) =>
         /\ (msg'.type = "notif" /\ ~OfRecordedSubscription(msg'))
                => /\ UNCHANGED <<outstanding, blocks_in_progress, pending_seen,
                                  next_request_id, heads_sub_id, pending_sub_id,
                                  sent, issued>>
                   /\ UNCHANGED outVars
         /\ (msg'.type = "resp" /\ msg'.id \in Reserved)
                => /\ UNCHANGED <<outstanding, blocks_in_progress, pending_seen,
                                  next_request_id, sent, issued>>
                   /\ UNCHANGED outVars
                   /\ IF monitor = "block" \/ msg'.id = 2
                      THEN heads_sub_id' = msg'.result /\ pending_sub_id' = pending_sub_id
                      ELSE pending_sub_id' = msg'.result /\ heads_sub_id' = heads_sub_id
      ]_vars

\* a transaction monitor session that has the pending subscription's
\* identifier, has announcements recorded, and has just received a newHeads
\* notification before the acknowledgement of that subscription
C25_Witness ==
    /\ monitor = "tx"
    /\ Live
    /\ pending_sub_id = SubId(PendingSub)
    /\ heads_sub_id = None
    /\ DOMAIN pending_seen # {}
    /\ msg.type = "notif"
    /\ msg.subscription = SubId(HeadsSub)
    /\ msg.result.hash = "hB"
    /\ outstanding = EmptyMap
    /\ next_request_id = FirstRequestId

\* the receipt requests of the Correlation Table that refer to block h
ReceiptEntries(h) ==
    {id \in DOMAIN outstanding :
        outstanding[id].kind = "receipt" /\ outstanding[id].meta.block_hash = h}

\* C26: in the block monitor, between two messages, the pending_receipts of
\* every aggregate in progress is positive and is the number of receipt
\* entries of the Correlation Table that refer to its block.
C26_PendingReceiptsMatchTable ==
    (monitor = "block" /\ Live) =>
        \A h \in DOMAIN blocks_in_progress :
            /\ blocks_in_progress[h].pending_receipts > 0
            /\ blocks_in_progress[h].pending_receipts = Cardinality(ReceiptEntries(h))

\* C27: in the mempool monitor, in every state, the size of the pending set is
\* total_seen_pending minus total_confirmed.
C27_PendingSizeIsSeenMinusConfirmed ==
    monitor = "mempool" =>
        Cardinality(state.pending) = state.total_seen_pending - state.total_confirmed

\* both transactions were announced and confirmed by a fetched block, and t1
\* was announced again afterwards
C27_Witness ==
    /\ monitor = "mempool"
    /\ Live
    /\ state.total_seen_pending = 3
    /\ state.total_confirmed = 2
    /\ state.pending = {"t1"}
    /\ msg.type = "notif"
    /\ msg.result.hash = "t1"

\* what the i-th snapshot line says of the node of the run
NodeData(i) == snapshots[i].nodes[endpoints[1]]

\* C28: in the mempool monitor, whatever the interleaving of the sampler with
\* the session, the new_pending (confirmed) of all snapshots written so far
\* plus the current interval counter is total_seen_pending (total_confirmed),
\* and every snapshot's mempool_size exceeds that of the snapshot before it
\* (0 before the first) by its net_pending_delta.
C28_SnapshotsLoseNoEvent ==
    (monitor = "mempool" /\ endpoints # << >>) =>
        /\ SeqSum([i \in 1..Len(snapshots) |-> NodeData(i).new_pending])
              + state.new_pending_since_last = state.total_seen_pending
        /\ SeqSum([i \in 1..Len(snapshots) |-> NodeData(i).confirmed])
              + state.confirmed_since_last = state.total_confirmed
        /\ \A i \in 1..Len(snapshots) :
              NodeData(i).mempool_size
                  - (IF i = 1 THEN 0 ELSE NodeData(i - 1).mempool_size)
              = NodeData(i).net_pending_delta

\* a snapshot was written after two announcements and their confirmation, and
\* an announcement has arrived since
C28_Witness ==
    /\ monitor = "mempool"
    /\ Len(snapshots) >= 2
    /\ NodeData(Len(snapshots)).new_pending = 2
    /\ NodeData(Len(snapshots)).confirmed = 2
    /\ NodeData(Len(snapshots)).mempool_size = 0
    /\ state.new_pending_since_last = 1
    /\ state.total_seen_pending = 3

\* C29: in the transaction monitor, the records a session puts on the queue
\* have pairwise different transaction hashes; stated of the first session of
\* a run, whose records are all the queue holds while no other was started.
C29_OneRecordPerHashInSession ==
    (monitor = "tx" /\ Len(tasks) <= 1) =>
        \A i, j \in 1..Len(queue) : i # j => queue[i].tx.hash # queue[j].tx.hash

\* how many times close() has written the closing bracket
RECURSIVE TimesClosed(_)
TimesClosed(fh) ==
    IF fh = << >> THEN 0
    ELSE (IF Head(fh) = TokClose THEN 1 ELSE 0) + TimesClosed(Tail(fh))

\* C30: in the block monitor the closing bracket is never written twice, and
\* once main has left its try statement, by the normal end of the budget, by
\* main_async's configuration error or by a user interrupt, the file is the
\* closed JSON array of every record passed to add_record, in order.
C30_FileClosedOnEveryExit ==
    monitor = "block" =>
        /\ TimesClosed(writer.fh) <= 1
        /\ main_pc \in {"exit", "exit_error"} =>
              /\ TimesClosed(writer.fh) = 1
              /\ writer.buffer = << >>
              /\ writer.fh = ClosedArray(added)

\* the run was interrupted while a record was still in the writer's buffer
C30_Witness ==
    /\ monitor = "block"
    /\ main_pc = "exit"
    /\ interrupted
    /\ sup_pc = "cancelled"
    /\ Len(added) = 1
    /\ added[1].transactions.count = 0
    /\ Closed(writer.fh)

====
